---- MODULE Spec2Model ----
(***************************************************************************)
(* Xylophone Champion: the Note judgment state machine (note.py), the      *)
(* score/combo/health aggregator and the scene of GameScene (game.py), the *)
(* cache look-up and the lane assignment loop of analyze_music             *)
(* (analyzer.py).                                                          *)
(*                                                                         *)
(* Times are integers counted in hundredths of a second (10 ms): every     *)
(* time constant of the program is a whole number of them.                 *)
(***************************************************************************)
EXTENDS Integers, Sequences, FiniteSets, TLC

\* ------------------------------------------------------------------------
\* Program constants
\* ------------------------------------------------------------------------

\* note.py:8
NUM_LANES == 4
\* note.py:23-25, in hundredths of a second
PERFECT_WINDOW == 7
GOOD_WINDOW == 13
POOR_WINDOW == 20
\* analyzer.py:18 and :21, in hundredths of a second
MIN_GAP_LANE == 25
MIN_GAP_GLOBAL == 8
\* analyzer.py:113-114, the sentinel -999.0 s
SENTINEL == -99900
\* game.py:360, cap and step of the combo multiplier
CAP_MULTIPLIER == 4
COMBO_STEP == 10
\* game.py:110 and :382
START_HEALTH == 100
MISS_PENALTY == 10

\* game.py:42, _COUNTDOWN, in hundredths of a second
COUNTDOWN == 300
\* note.py:36 and :39, pixels per second and pixels
FALL_SPEED == 420
HIT_Y == 870
\* note.py:42 and game.py:38, pixels
NOTE_HEIGHT == 22
LANE_TOP == 90
\* game.py:198, the 0.5 s added to _TIME_VISIBLE when notes are injected
INJECT_MARGIN == 50
\* game.py:213-214, how long a hit and a missed note stay in the active list
HIT_RETENTION == 40
MISS_RETENTION == 60
\* game.py:229, the time after the end of the music at which the run ends
GRACE == 150
\* game.py:332, frames a key flash lasts
FLASH_FRAMES == 12
\* game.py:279, characters of the error message that are kept
MSG_MAX == 80
\* analyzer.py:86-89, the length of the message of the RuntimeError raised
\* when librosa cannot be imported
LIBROSA_MSG == 80
\* game.py:49, the number of keys in _LANE_KEYS
NUM_LANE_KEYS == 5
\* note.py:11-16, the number of entries of LANE_COLORS
NUM_LANE_COLORS == 4

\* Python's None, and None where the code holds a lane index (analyzer.py:136)
None == "None"
NoLane == -1

Lanes == 0 .. (NUM_LANES - 1)

\* note.py:28-33
JUDGMENT_POINTS ==
    [j \in {"perfect", "good", "poor", "miss"} |->
        CASE j = "perfect" -> 100
          [] j = "good" -> 50
          [] j = "poor" -> 15
          [] j = "miss" -> 0]

abs(x) == IF x < 0 THEN -x ELSE x
max(a, b) == IF a >= b THEN a ELSE b
min(a, b) == IF a <= b THEN a ELSE b

\* ------------------------------------------------------------------------
\* Bounds of the model
\* ------------------------------------------------------------------------

\* number of onsets the lane-assignment loop is run on
MaxOnsets == 3
\* calls of _register_hit with a judgment other than 'perfect', and calls of
\* _register_miss, and calls of _register_hit in all, in one aggregator run
MaxOtherHits == 1
MaxMisses == 1
MaxHits == 41

\* instants at which a Note is created, and offsets from its time at which
\* try_hit and check_missed are called
NoteTimes == {30, 1000}
Offsets == {-21, -20, -14, -13, -8, -7, 0, 3, 7, 8, 10, 13, 14, 20, 21}
\* gaps between one onset and the next (strictly positive), and the band
\* energies an onset may have in each lane
Deltas == {4, 8, 9, 17}
EnergyLevels == {0, 1}

\* key-down events that act on a run: lane keys while playing, and pauses
MaxKeyDowns == 2
\* notes of the dense chart
DenseNotes == 12
\* time that passes between two readings of the clock: before the music
\* starts, and from then on
IdleSteps == {0, 300}
PlaySteps == {50, 200}
\* lengths of the messages of the errors a load can raise
MsgLens == {41, 120}

VARIABLES
    \* the Note under test (note.py:57-62) and the last two calls made on it
    note, call, prev, ret,
    \* GameScene's run statistics (game.py:104-110)
    score, combo, max_combo, perfect_count, good_count, miss_count, health,
    \* the judgment passed to the last _register_hit / the last aggregator call
    agg_call,
    \* analyze_music's lane-assignment loop (analyzer.py:113-147)
    last_time_per_lane, last_any_time, notes, onset_time, onset_count,
    band_energies, chosen, branch,
    \* GameScene (game.py:98-127): _state, _load_done, _countdown_ms,
    \* _error_msg (its length), _notes, _active (indices into _notes),
    \* _note_idx, _music_duration, _music_start_ms, _paused_at_ms,
    \* _current_time, _key_pressed, _key_flash
    state, load_done, countdown_ms, error_msg, scene_notes, active, note_idx,
    music_duration, music_start_ms, paused_at_ms, current_time, key_pressed,
    key_flash,
    \* pygame.time.get_ticks() at its last reading, the cache entry of the
    \* music file, the function whose IndexError left the main loop (None while it runs),
    \* the action handle_event returned, what draw() last showed
    clock, cache_entry, crash, action, screen,
    \* the exception _load caught (None if none)
    load_exc,
    \* lane key-downs handled while playing and pauses so far
    keydowns,
    \* the music file's content, the cache directory (one entry per cache
    \* path) and what the last call of analyze_music returned
    file, cache, result

noteVars == <<note, call, prev, ret>>
aggVars == <<score, combo, max_combo, perfect_count, good_count, miss_count, health>>
loopVars == <<last_time_per_lane, last_any_time, notes, onset_time, onset_count,
              band_energies, chosen, branch>>
sceneVars == <<state, load_done, countdown_ms, error_msg, scene_notes, active,
               note_idx, music_duration, music_start_ms, paused_at_ms,
               current_time, key_pressed, key_flash, clock, cache_entry, crash,
               action, screen, load_exc, keydowns>>
cacheVars == <<file, cache, result>>

vars == <<noteVars, aggVars, agg_call, loopVars, sceneVars, cacheVars>>

\* ------------------------------------------------------------------------
\* Note (note.py)
\* ------------------------------------------------------------------------

\* Note.__init__
NewNote(lane, time) ==
    [lane |-> lane, time |-> time, hit |-> FALSE, missed |-> FALSE, judgment |-> None]

\* Note.is_active
is_active(n) == ~n.hit /\ ~n.missed

\* the classification tests, were their bounds exclusive
Classify_Exclusive(diff) ==
    IF diff < PERFECT_WINDOW THEN "perfect"
    ELSE IF diff < GOOD_WINDOW THEN "good"
    ELSE IF diff < POOR_WINDOW THEN "poor"
    ELSE None

\* the three classification tests of try_hit, in the order the code makes them
Classify(diff) ==
    IF diff <= PERFECT_WINDOW THEN "perfect"
    ELSE IF diff <= GOOD_WINDOW THEN "good"
    ELSE IF diff <= POOR_WINDOW THEN "poor"
    ELSE None

\* try_hit, were it to lack its early return on a resolved note
try_hit_NoEarlyReturn(n, t) ==
    LET j == Classify(abs(t - n.time))
    IN  IF j # None
        THEN [note |-> [n EXCEPT !.hit = TRUE, !.judgment = j], ret |-> j]
        ELSE [note |-> n, ret |-> None]

\* Note.try_hit: the note after the call and the value returned
try_hit(n, t) ==
    IF n.hit \/ n.missed
    THEN [note |-> n, ret |-> None]
    ELSE LET j == Classify(abs(t - n.time))
         IN  IF j # None
             THEN [note |-> [n EXCEPT !.hit = TRUE, !.judgment = j], ret |-> j]
             ELSE [note |-> n, ret |-> None]

\* the test of check_missed, were it to include the edge of the window
PastWindow_Inclusive(n, t) == t >= n.time + POOR_WINDOW

\* the test of check_missed on the playback time
PastWindow(n, t) == t > n.time + POOR_WINDOW

\* check_missed, were it to test only that the note is not missed yet
check_missed_HitIgnored(n, t) ==
    IF ~n.missed /\ PastWindow(n, t)
    THEN [note |-> [n EXCEPT !.missed = TRUE, !.judgment = "miss"], ret |-> TRUE]
    ELSE [note |-> n, ret |-> FALSE]

\* Note.check_missed: the note after the call and the value returned
check_missed(n, t) ==
    IF ~n.hit /\ ~n.missed /\ PastWindow(n, t)
    THEN [note |-> [n EXCEPT !.missed = TRUE, !.judgment = "miss"], ret |-> TRUE]
    ELSE [note |-> n, ret |-> FALSE]

\* ------------------------------------------------------------------------
\* Score, combo and health (game.py)
\* ------------------------------------------------------------------------

\* the multiplier, were it left uncapped
Multiplier_NoCap(c) == 1 + (c \div COMBO_STEP)

\* the multiplier, were it derived from the combo before its increment
Multiplier_BeforeIncrement(c) == min(CAP_MULTIPLIER, 1 + ((c - 1) \div COMBO_STEP))

\* the multiplier _register_hit derives from the combo it has just incremented
Multiplier(c) == min(CAP_MULTIPLIER, 1 + (c \div COMBO_STEP))

\* the counters after _register_hit's if/else on the judgment:
\* the counters, were a poor hit to go uncounted
CountHit_PoorUncounted(judgment, perfect, good) ==
    IF judgment = "perfect" THEN <<perfect + 1, good>>
    ELSE IF judgment = "good" THEN <<perfect, good + 1>>
    ELSE <<perfect, good>>

\* <<perfect_count, good_count>>
CountHit(judgment, perfect, good) ==
    IF judgment = "perfect" THEN <<perfect + 1, good>> ELSE <<perfect, good + 1>>

\* GameScene._register_hit (the animated text it spawns is presentation only)
register_hit(judgment) ==
    LET c == combo + 1
        multiplier == Multiplier(c)
        counts == CountHit(judgment, perfect_count, good_count)
    IN  /\ combo' = c
        /\ max_combo' = max(max_combo, c)
        /\ score' = score + JUDGMENT_POINTS[judgment] * multiplier
        /\ perfect_count' = counts[1]
        /\ good_count' = counts[2]
        /\ agg_call' = [op |-> "hit", judgment |-> judgment, multiplier |-> multiplier]
        /\ UNCHANGED <<miss_count, health>>

\* health after one _register_miss, were it not floored at 0
MissHealth_NoFloor(h) == h - MISS_PENALTY

\* health after one _register_miss
MissHealth(h) == max(0, h - MISS_PENALTY)

\* GameScene._register_miss
register_miss ==
    /\ miss_count' = miss_count + 1
    /\ combo' = 0
    /\ health' = MissHealth(health)
    /\ agg_call' = [op |-> "miss", judgment |-> "miss", multiplier |-> 0]
    /\ UNCHANGED <<score, max_combo, perfect_count, good_count>>

\* GameScene.__init__, the run statistics
AggInit ==
    /\ score = 0
    /\ combo = 0
    /\ max_combo = 0
    /\ perfect_count = 0
    /\ good_count = 0
    /\ miss_count = 0
    /\ health = START_HEALTH
    /\ agg_call = [op |-> "init", judgment |-> None, multiplier |-> 0]

\* the Note under test before any call
NoteIdle ==
    /\ note = NewNote(0, 0)
    /\ call = [op |-> "init", t |-> 0]
    /\ prev = [op |-> "init", t |-> 0]
    /\ ret = None

\* analyze_music before the loop (analyzer.py:113-115)
LoopInit ==
    /\ last_time_per_lane = [i \in Lanes |-> SENTINEL]
    /\ last_any_time = SENTINEL
    /\ notes = <<>>
    /\ onset_time = 0
    /\ onset_count = 0
    /\ band_energies = [i \in Lanes |-> 0]
    /\ chosen = NoLane
    /\ branch = "init"

\* no cache file for the key of the music file
NoEntry == [kind |-> "absent", text |-> <<>>]

\* contents a file at music_path can have: the 8-hex-digit MD5 digest of its
\* first 8192 bytes, which of the prefixes of that digest it starts with, and
\* the bytes after the prefix
Digests == {"d1", "d2"}
Salts == {0, 1}
Tails == {0, 1}
Contents == [digest : Digests, salt : Salts, tail : Tails]

\* hashlib.md5(fh.read(8192)).hexdigest()[:8]
Digest(content) == content.digest

\* _cache_path, were the name of the cache file the base name alone
cache_path_NameOnly(content) == <<"music", "">>

\* _cache_path: f"{basename}_{digest}.json" for the file named music
cache_path(content) == <<"music", Digest(content)>>

CachePaths == {cache_path(c) : c \in Contents}

\* the chart librosa's analysis yields for a content: one per content
AnalysisOf(content) ==
    [notes |-> <<[time |-> 20, lane |-> (IF content.digest = "d1" THEN 0 ELSE 1)],
                 [time |-> 60 + 10 * content.tail, lane |-> 2 + content.salt]>>,
     tempo |-> 120 + content.tail,
     duration |-> 100]

IdleFile == [digest |-> "d1", salt |-> 0, tail |-> 0]
\* no call of analyze_music yet
NoChart == [notes |-> <<>>, tempo |-> 0, duration |-> 0]
NoResult == [exc |-> "NoCall", chart |-> NoChart, analysed |-> FALSE, file |-> IdleFile]

\* an empty cache directory and no call of analyze_music yet
CacheIdle ==
    /\ file = IdleFile
    /\ cache = [path \in CachePaths |-> NoEntry]
    /\ result = NoResult

\* GameScene.__init__, the fields other than the run statistics
SceneFieldsInit ==
    /\ state = "loading"
    /\ load_done = FALSE
    /\ countdown_ms = 0
    /\ error_msg = 0
    /\ scene_notes = <<>>
    /\ active = <<>>
    /\ note_idx = 0
    /\ music_duration = 0
    /\ music_start_ms = 0
    /\ paused_at_ms = 0
    /\ current_time = 0
    /\ key_pressed = [i \in 0 .. (NUM_LANES - 1) |-> FALSE]
    /\ key_flash = [i \in 0 .. (NUM_LANES - 1) |-> 0]

\* a scene that is never run
SceneIdle ==
    /\ SceneFieldsInit
    /\ clock = 0
    /\ cache_entry = NoEntry
    /\ crash = None
    /\ action = None
    /\ screen = None
    /\ load_exc = None
    /\ keydowns = 0

\* ------------------------------------------------------------------------
\* SpecNote: one Note, judged at arbitrary instants the way GameScene judges
\* ------------------------------------------------------------------------

NoteInit ==
    /\ \E lane \in Lanes, time \in NoteTimes : note = NewNote(lane, time)
    /\ call = [op |-> "init", t |-> 0]
    /\ prev = [op |-> "init", t |-> 0]
    /\ ret = None
    /\ AggInit
    /\ LoopInit
    /\ SceneIdle
    /\ CacheIdle

\* judgment = note.try_hit(ct); if judgment: self._register_hit(judgment, lane)
HitAttempt ==
    \E off \in Offsets :
        LET t == note.time + off
            r == try_hit(note, t)
        IN  /\ note' = r.note
            /\ ret' = r.ret
            /\ prev' = call
            /\ call' = [op |-> "try_hit", t |-> t]
            /\ IF r.ret # None
               THEN register_hit(r.ret)
               ELSE UNCHANGED <<aggVars, agg_call>>
            /\ UNCHANGED <<loopVars, sceneVars, cacheVars>>

\* if note.check_missed(ct): self._register_miss(note)
MissCheck ==
    \E off \in Offsets :
        LET t == note.time + off
            r == check_missed(note, t)
        IN  /\ note' = r.note
            /\ ret' = r.ret
            /\ prev' = call
            /\ call' = [op |-> "check_missed", t |-> t]
            /\ IF r.ret
               THEN register_miss
               ELSE UNCHANGED <<aggVars, agg_call>>
            /\ UNCHANGED <<loopVars, sceneVars, cacheVars>>

NoteNext == HitAttempt \/ MissCheck

SpecNote == NoteInit /\ [][NoteNext]_vars

\* C3: hit and missed are never both true, and judgment is None if and only
\* if both are false.
C3_NoteInvariant ==
    /\ ~(note.hit /\ note.missed)
    /\ (note.judgment = None) <=> (~note.hit /\ ~note.missed)

\* check_missed was called past the window of a note that try_hit had hit
C3_Witness ==
    /\ note.hit
    /\ call.op = "check_missed"
    /\ call.t > note.time + POOR_WINDOW
    /\ prev.op = "try_hit"

\* C4: once the note is hit or missed, a later try_hit returns None and a
\* later check_missed returns False, neither changes the note, and score and
\* combo stay as they are.
C4_Terminal ==
    [][(note.hit \/ note.missed) =>
          /\ note' = note
          /\ call'.op = "try_hit" => ret' = None
          /\ call'.op = "check_missed" => ret' = FALSE
          /\ score' = score
          /\ combo' = combo]_vars

\* try_hit was called again, inside the perfect window, on a note already hit
C4_Witness ==
    /\ note.hit
    /\ prev.op = "try_hit"
    /\ call.op = "try_hit"
    /\ abs(call.t - note.time) <= PERFECT_WINDOW
    /\ ret = None
    /\ combo = 1

C6_MissIff ==
    [][is_active(note) =>
          /\ note'.missed <=> (call'.op = "check_missed"
                                /\ call'.t > note.time + POOR_WINDOW)
          /\ (call'.op = "check_missed" /\ call'.t <= note.time + POOR_WINDOW)
                 => (note' = note /\ ret' = FALSE)]_vars

\* check_missed left the note pending at time + POOR_WINDOW and marked it
\* missed one hundredth later
C6_Witness ==
    /\ note.missed
    /\ prev = [op |-> "check_missed", t |-> note.time + POOR_WINDOW]
    /\ call = [op |-> "check_missed", t |-> note.time + POOR_WINDOW + 1]
    /\ ret = TRUE

\* C7: on a pending note at 10.0 s a press at 10.03 s is judged perfect, a
\* press at 10.10 s good, a press at 10.20 s gets no judgment and leaves the
\* note pending, and check_missed(10.20) then marks it missed.
C7_Scenario ==
    [][(note.time = 1000 /\ is_active(note)) =>
          /\ call' = [op |-> "try_hit", t |-> 1003] => ret' = "perfect"
          /\ call' = [op |-> "try_hit", t |-> 1010] => ret' = "good"
          /\ call' = [op |-> "try_hit", t |-> 1020] => (ret' = None /\ is_active(note'))
          /\ call' = [op |-> "check_missed", t |-> 1020] => note'.missed]_vars

\* ------------------------------------------------------------------------
\* SpecScore: the aggregator, driven by hit and miss resolutions
\* ------------------------------------------------------------------------

ScoreInit == AggInit /\ NoteIdle /\ LoopInit /\ SceneIdle /\ CacheIdle

\* a hit resolution with one of the judgments try_hit returns
RegisterHit ==
    \E judgment \in {"perfect", "good", "poor"} :
        /\ perfect_count + good_count < MaxHits
        /\ judgment # "perfect" => good_count < MaxOtherHits
        /\ register_hit(judgment)
        /\ UNCHANGED <<noteVars, loopVars, sceneVars, cacheVars>>

\* a missed resolution
RegisterMiss ==
    /\ miss_count < MaxMisses
    /\ register_miss
    /\ UNCHANGED <<noteVars, loopVars, sceneVars, cacheVars>>

ScoreNext == RegisterHit \/ RegisterMiss

SpecScore == ScoreInit /\ [][ScoreNext]_vars

\* C8: a hit resolution increments combo, raises max_combo to it if larger,
\* takes the multiplier min(4, 1 + combo div 10) of the incremented combo, adds
\* the judgment's base points times that multiplier to score, and leaves
\* health alone.
C8_HitResolution ==
    [][agg_call'.op = "hit" =>
          LET c == combo + 1
              m == IF 1 + (c \div 10) > 4 THEN 4 ELSE 1 + (c \div 10)
          IN  /\ combo' = c
              /\ max_combo' = (IF max_combo >= c THEN max_combo ELSE c)
              /\ agg_call'.multiplier = m
              /\ score' = score + JUDGMENT_POINTS[agg_call'.judgment] * m
              /\ health' = health]_vars

\* the 40th hit of a combo, scored with the capped multiplier, in a run that
\* had a miss before
C8_Witness ==
    /\ agg_call.op = "hit"
    /\ combo = 40
    /\ agg_call.multiplier = 4
    /\ health < START_HEALTH

\* C9: a hit resolution increments the counter of its own judgment and no
\* other; a poor hit increments neither perfect_count nor good_count.
C9_OwnCounter ==
    [][agg_call'.op = "hit" =>
          /\ agg_call'.judgment = "perfect" =>
                 (perfect_count' = perfect_count + 1 /\ good_count' = good_count)
          /\ agg_call'.judgment = "good" =>
                 (good_count' = good_count + 1 /\ perfect_count' = perfect_count)
          /\ agg_call'.judgment = "poor" =>
                 (good_count' = good_count /\ perfect_count' = perfect_count)]_vars

\* a run that so far is n perfect hits in a row and nothing else
OnlyPerfectHits(n) ==
    /\ agg_call.op = "hit"
    /\ perfect_count = n
    /\ combo = n
    /\ good_count = 0
    /\ miss_count = 0

\* C10: in 12 consecutive perfect hits from combo 0 and score 0, the first ten
\* are scored with multiplier 1 and the multiplier first reaches 2 at the
\* 11th hit.
C10_SecondTierAtEleven ==
    \A n \in 1 .. 12 :
        OnlyPerfectHits(n) => agg_call.multiplier = (IF n <= 10 THEN 1 ELSE 2)

\* C10, amended: in 12 consecutive perfect hits from combo 0 and score 0, the
\* first nine are scored with multiplier 1 and the multiplier first reaches 2
\* at the 10th hit (combo = 10); the score after n hits is 100 n up to the
\* 9th and 900 + 200 (n - 9) from the 10th.
C10_SecondTierAtTen ==
    \A n \in 1 .. 12 :
        OnlyPerfectHits(n) =>
            /\ agg_call.multiplier = (IF n <= 9 THEN 1 ELSE 2)
            /\ score = (IF n <= 9 THEN 100 * n ELSE 900 + 200 * (n - 9))

\* the 12th perfect hit in a row
C10_Witness == OnlyPerfectHits(12) /\ score = 1500

\* ------------------------------------------------------------------------
\* SpecLoop: the lane-assignment loop of analyze_music (analyzer.py:113-147)
\* ------------------------------------------------------------------------

\* the global-gap test, were it to skip only an onset that is not later than
\* the last note
TooClose_NotLater(time) == time - last_any_time <= 0

\* the global-gap test that skips an onset (analyzer.py:119)
TooClose(time) == time - last_any_time < MIN_GAP_GLOBAL

\* the per-lane gap test, were it made with the global gap
LaneFree_GlobalGap(lane, time) == time - last_time_per_lane[lane] >= MIN_GAP_GLOBAL

\* the per-lane gap test, were the per-lane gap longer than NUM_LANES global gaps
LaneFree_LongGap(lane, time) ==
    time - last_time_per_lane[lane] >= NUM_LANES * MIN_GAP_GLOBAL + 1

\* the per-lane gap test (analyzer.py:138)
LaneFree(lane, time) == time - last_time_per_lane[lane] >= MIN_GAP_LANE

\* the ranking, were lanes of equal energy to come out in descending order
sorted_lanes_TiesReversed(energies) ==
    LET before(i) == {j \in Lanes : energies[j] > energies[i]
                                    \/ (energies[j] = energies[i] /\ j > i)}
    IN  [k \in 1 .. NUM_LANES |-> CHOOSE i \in Lanes : Cardinality(before(i)) = k - 1]

\* sorted(range(NUM_LANES), key=lambda i: band_energies[i], reverse=True):
\* Python's sort is stable, also when reversed, so lanes of equal energy keep
\* their ascending order
sorted_lanes(energies) ==
    LET before(i) == {j \in Lanes : energies[j] > energies[i]
                                    \/ (energies[j] = energies[i] /\ j < i)}
    IN  [k \in 1 .. NUM_LANES |-> CHOOSE i \in Lanes : Cardinality(before(i)) = k - 1]

\* the for/break over sorted_lanes: the first lane whose gap is satisfied
ChooseLane(energies, time) ==
    LET sl == sorted_lanes(energies)
        free == {k \in 1 .. NUM_LANES : LaneFree(sl[k], time)}
    IN  IF free = {} THEN NoLane
        ELSE sl[CHOOSE k \in free : \A m \in free : k <= m]

\* the body of the loop over (onset_frames, onset_times) for an onset d after
\* the one before, with the band energies read from the CQT
OnsetStep(d, energies) ==
        LET time == onset_time + d
        IN  /\ onset_time' = time
            /\ onset_count' = onset_count + 1
            /\ IF TooClose(time)
               THEN /\ branch' = "too_close"
                    /\ chosen' = NoLane
                    /\ UNCHANGED <<last_time_per_lane, last_any_time, notes, band_energies>>
               ELSE LET lane == ChooseLane(energies, time)
                    IN  /\ band_energies' = energies
                        /\ chosen' = lane
                        /\ IF lane = NoLane
                           THEN /\ branch' = "no_lane"
                                /\ UNCHANGED <<last_time_per_lane, last_any_time, notes>>
                           ELSE /\ branch' = "assigned"
                                /\ notes' = Append(notes, [time |-> time, lane |-> lane])
                                /\ last_time_per_lane' =
                                       [last_time_per_lane EXCEPT ![lane] = time]
                                /\ last_any_time' = time
            /\ UNCHANGED <<noteVars, aggVars, agg_call, sceneVars, cacheVars>>

\* one iteration of the loop: the next onset, later than the one before
ProcessOnset ==
    /\ onset_count < MaxOnsets
    /\ \E d \in Deltas, energies \in [Lanes -> EnergyLevels] : OnsetStep(d, energies)

LoopNext == ProcessOnset

LoopSpecInit == LoopInit /\ NoteIdle /\ AggInit /\ SceneIdle /\ CacheIdle

SpecLoop == LoopSpecInit /\ [][LoopNext]_vars

\* C1: any two notes of the chart assigned to the same lane have times that
\* differ by at least MIN_GAP_LANE.
C1_LaneGap ==
    \A i, j \in 1 .. Len(notes) :
        (i < j /\ notes[i].lane = notes[j].lane)
            => notes[j].time - notes[i].time >= MIN_GAP_LANE

\* two notes of one lane exactly MIN_GAP_LANE apart, with notes of other
\* lanes between them
C1_Witness ==
    \E i, j \in 1 .. Len(notes) :
        /\ i + 1 < j
        /\ notes[i].lane = notes[j].lane
        /\ notes[j].time - notes[i].time = MIN_GAP_LANE

\* C2: the notes of the chart are in strictly increasing time order, and each
\* is at least MIN_GAP_GLOBAL later than its immediate predecessor.
C2_GlobalGap ==
    /\ \A i, j \in 1 .. Len(notes) : i < j => notes[i].time < notes[j].time
    /\ \A i \in 1 .. Len(notes) - 1 :
           notes[i + 1].time - notes[i].time >= MIN_GAP_GLOBAL

\* an onset was skipped for the global gap, and two consecutive notes are
\* exactly MIN_GAP_GLOBAL apart
C2_Witness ==
    /\ onset_count > Len(notes)
    /\ branch = "assigned"
    /\ \E i \in 1 .. Len(notes) - 1 :
           notes[i + 1].time - notes[i].time = MIN_GAP_GLOBAL

\* A passage of closely spaced onsets: long enough for every lane to hold a
\* recent note when the next onset arrives
MaxRun == 6
RunDeltas == {4, 8, 9}
\* band energies that rank the lanes 0, 1, 2, 3 and 3, 2, 1, 0
RunEnergies == {[l \in Lanes |-> 0], [l \in Lanes |-> l]}

ProcessRunOnset ==
    /\ onset_count < MaxRun
    /\ \E d \in RunDeltas, energies \in RunEnergies : OnsetStep(d, energies)

SpecRun == LoopSpecInit /\ [][ProcessRunOnset]_vars

\* the lanes other than the chosen one that an onset at onset_time finds busy
BusyOthers ==
    {j \in Lanes \ {chosen} : onset_time - last_time_per_lane[j] < MIN_GAP_LANE}

\* C28: with four lanes, a per-lane gap of 0.25 s and a global gap of 0.08 s,
\* the loop never takes the branch that drops an onset for want of a lane:
\* every onset that passes the global gap is appended to the chart with a lane,
\* and only those are
C28_LaneAlwaysFound ==
    /\ [](branch # "no_lane")
    /\ [][onset_count' # onset_count
            => IF onset_time' - last_any_time >= MIN_GAP_GLOBAL
               THEN /\ branch' = "assigned"
                    /\ chosen' \in Lanes
                    /\ notes' = Append(notes, [time |-> onset_time', lane |-> chosen'])
               ELSE /\ branch' = "too_close"
                    /\ notes' = notes]_vars

\* the fifth note or a later one took the one lane that was free: the other
\* three hold notes less than MIN_GAP_LANE old, and the chosen lane held an
\* earlier note of the passage
C28_Witness ==
    /\ branch = "assigned"
    /\ Len(notes) >= NUM_LANES + 1
    /\ Cardinality(BusyOthers) = NUM_LANES - 1
    /\ \E i \in 1 .. Len(notes) - 1 :
           /\ notes[i].lane = chosen
           /\ onset_time - notes[i].time < NUM_LANES * MIN_GAP_GLOBAL + 1

\* ------------------------------------------------------------------------
\* Charts
\* ------------------------------------------------------------------------

RECURSIVE DenseFrom(_)
\* notes 0.1 s apart that go round the lanes, from the k-th on
DenseFrom(k) ==
    IF k > DenseNotes THEN <<>>
    ELSE <<[time |-> 10 * k, lane |-> (k - 1) % NUM_LANES]>> \o DenseFrom(k + 1)

ChartShort ==
    [notes |-> <<[time |-> 20, lane |-> 0], [time |-> 30, lane |-> 1],
                 [time |-> 80, lane |-> 0]>>,
     tempo |-> 120, duration |-> 100]
ChartDense ==
    [notes |-> DenseFrom(1), tempo |-> 120, duration |-> 10 * DenseNotes + 10]
ChartEmpty == [notes |-> <<>>, tempo |-> 120, duration |-> 0]
\* entries a cache file can hold that no analysis of this program writes: a
\* note of a fifth lane, and a note later than the end of the music
ChartFifthLane ==
    [notes |-> <<[time |-> 60, lane |-> NUM_LANES]>>, tempo |-> 120, duration |-> 100]
ChartLate ==
    [notes |-> <<[time |-> 40, lane |-> 1], [time |-> 520, lane |-> 2]>>,
     tempo |-> 120, duration |-> 60]

\* what the analysis of a music file can yield, and what a readable cache
\* entry can hold
FreshCharts == {ChartShort, ChartDense, ChartEmpty}
CachedCharts == {ChartShort, ChartFifthLane, ChartLate}

\* ------------------------------------------------------------------------
\* analyze_music (analyzer.py:74-154)
\* ------------------------------------------------------------------------

\* json.dump of {'notes': notes, 'tempo': tempo, 'duration': duration}: the
\* members in order, each a name and a value, a note being the members
\* 'time' and 'lane'
json_dump(chart) ==
    <<<<"notes", [k \in 1 .. Len(chart.notes) |->
                     <<<<"time", chart.notes[k].time>>, <<"lane", chart.notes[k].lane>>>>]>>,
      <<"tempo", chart.tempo>>,
      <<"duration", chart.duration>>>>

\* data[name] of the object json.load parsed from the members
Member(members, name) ==
    members[CHOOSE i \in 1 .. Len(members) : members[i][1] = name][2]

\* the cache-hit return, were it to read the duration from 'tempo'
json_load_TempoTwice(text) ==
    [notes |-> [k \in 1 .. Len(Member(text, "notes")) |->
                   [time |-> Member(Member(text, "notes")[k], "time"),
                    lane |-> Member(Member(text, "notes")[k], "lane")]],
     tempo |-> Member(text, "tempo"),
     duration |-> Member(text, "tempo")]

\* json.load and the cache-hit return data['notes'], float(data['tempo']),
\* float(data['duration'])
json_load(text) ==
    [notes |-> [k \in 1 .. Len(Member(text, "notes")) |->
                   [time |-> Member(Member(text, "notes")[k], "time"),
                    lane |-> Member(Member(text, "notes")[k], "lane")]],
     tempo |-> Member(text, "tempo"),
     duration |-> Member(text, "duration")]

\* the states a cache file can be in when a scene loads: none, one that is no
\* JSON, one that lacks a field, one that holds a chart
CacheEntries ==
    {NoEntry, [kind |-> "corrupt", text |-> <<>>], [kind |-> "nofields", text |-> <<>>]}
        \cup {[kind |-> "valid", text |-> json_dump(c)] : c \in CachedCharts}

Raised(exc, msg, entry) ==
    [exc |-> exc, msg |-> msg, chart |-> ChartEmpty, entry |-> entry, analysed |-> FALSE]

\* analyze_music, were it to skip the cache read and always analyse and store
analyze_music_NoCacheRead(file_ok, entry, librosa_ok, decode_ok, fresh, msg) ==
    IF ~file_ok THEN Raised("FileNotFoundError", msg, entry)
    ELSE IF ~librosa_ok THEN Raised("RuntimeError", LIBROSA_MSG, entry)
    ELSE IF ~decode_ok THEN Raised("DecodeError", msg, entry)
    ELSE [exc |-> None, msg |-> 0, chart |-> fresh,
          entry |-> [kind |-> "valid", text |-> json_dump(fresh)], analysed |-> TRUE]

\* analyze_music: file_ok says the music file can be opened, entry is the
\* cache entry of its key, librosa_ok that librosa can be imported, decode_ok
\* that librosa.load reads the file, fresh the chart the analysis yields, and
\* msg the length of the message of an error of the environment.  The result
\* is the exception raised (None on return), the chart returned, the cache
\* entry afterwards and whether the analysis was run.
analyze_music(file_ok, entry, librosa_ok, decode_ok, fresh, msg) ==
    IF ~file_ok THEN Raised("FileNotFoundError", msg, entry)
    ELSE IF entry.kind # "absent"
    THEN CASE entry.kind = "corrupt" -> Raised("JSONDecodeError", 41, entry)
           [] entry.kind = "nofields" -> Raised("KeyError", 7, entry)
           [] entry.kind = "valid" ->
                [exc |-> None, msg |-> 0, chart |-> json_load(entry.text), entry |-> entry,
                 analysed |-> FALSE]
    ELSE IF ~librosa_ok THEN Raised("RuntimeError", LIBROSA_MSG, entry)
    ELSE IF ~decode_ok THEN Raised("DecodeError", msg, entry)
    ELSE [exc |-> None, msg |-> 0, chart |-> fresh,
          entry |-> [kind |-> "valid", text |-> json_dump(fresh)], analysed |-> TRUE]

\* ------------------------------------------------------------------------
\* GameScene (game.py)
\* ------------------------------------------------------------------------

\* a Python list of n items accepts the indices -n .. n-1
PyIndexOK(i, n) == i >= -n /\ i < n

\* int(x / d) for d > 0: Python's int() truncates toward zero
TruncDiv(x, d) == IF x >= 0 THEN x \div d ELSE -((-x) \div d)

\* Note.get_y, with the times in hundredths of a second
get_y(n, ct) == TruncDiv(HIT_Y * 100 - (n.time - ct) * FALL_SPEED, 100)

\* str(exc), were _load to store it whole
Truncated_Whole(msg) == msg

\* str(exc)[:80]
Truncated(msg) == IF msg <= MSG_MAX THEN msg ELSE MSG_MAX

\* the test of the injection loop, were it nxt.time <= ct + _TIME_VISIBLE
InView_NoMargin(time, ct) == (time - ct) * FALL_SPEED <= HIT_Y * 100

\* the test of the injection loop: nxt.time <= ct + _TIME_VISIBLE + 0.5, with
\* _TIME_VISIBLE = HIT_Y / FALL_SPEED seconds
InView(time, ct) == (time - ct - INJECT_MARGIN) * FALL_SPEED <= HIT_Y * 100

RECURSIVE InjectTo(_, _, _)
\* the value of _note_idx when the injection loop stops
InjectTo(ns, idx, ct) ==
    IF idx < Len(ns) /\ InView(ns[idx + 1].time, ct)
    THEN InjectTo(ns, idx + 1, ct)
    ELSE idx

\* the indices the injection loop appends to _active
Injected(from, to) == [k \in 1 .. (to - from) |-> from + k]

RECURSIVE MissLoop(_, _, _, _)
\* the loop over _active that calls check_missed: the notes afterwards and the
\* number of calls of _register_miss
MissLoop(ns, act, ct, n) ==
    IF act = <<>> THEN [notes |-> ns, misses |-> n]
    ELSE LET k == Head(act)
             r == check_missed(ns[k], ct)
             missed == is_active(ns[k]) /\ r.ret
         IN  \* the rest of the loop runs on the values this iteration leaves
             CHOOSE out \in {MissLoop(ns1, rest, ct, n1) :
                                ns1 \in {IF missed THEN [ns EXCEPT ![k] = r.note] ELSE ns},
                                rest \in {Tail(act)},
                                n1 \in {IF missed THEN n + 1 ELSE n}} : TRUE

RECURSIVE Drained(_, _)
\* health after n calls of _register_miss
Drained(h, n) == IF n = 0 THEN h ELSE Drained(MissHealth(h), n - 1)

\* the filter, were it to drop every note whose time has passed
Retained_DueDropped(ns, act, ct) ==
    LET keep(k) == ns[k].time >= ct
    IN  SelectSeq(act, keep)

\* the filter that drops resolved notes from _active
Retained(ns, act, ct) ==
    LET keep(k) == ~( (ns[k].hit /\ ct - ns[k].time > HIT_RETENTION)
                      \/ (ns[k].missed /\ ct - ns[k].time > MISS_RETENTION) )
    IN  SelectSeq(act, keep)

\* the test on the health, were it to wait for a negative value
HealthOut_Negative(h) == h < 0

\* if self.health <= 0: self._end()
HealthOut(h) == h <= 0

\* the end-of-run test, were it to look at the playback time alone
MusicOver_TimeOnly(ct, idx, ns) == ct > music_duration + GRACE

\* the end-of-run test on the playback time and the injection index
MusicOver(ct, idx, ns) == ct > music_duration + GRACE /\ idx >= Len(ns)

\* _draw_notes raises IndexError when it looks up LANE_COLORS for a pending
\* note on screen whose lane is no index of it
DrawNotesRaises(ns, act, ct) ==
    \E p \in 1 .. Len(act) :
        LET n == ns[act[p]]
            y == get_y(n, ct)
        IN  /\ is_active(n)
            /\ ~(y < LANE_TOP - NOTE_HEIGHT \/ y > HIT_Y + NOTE_HEIGHT)
            /\ ~PyIndexOK(n.lane, NUM_LANE_COLORS)

\* the title _draw_result shows
ResultTitle(h) == IF h > 0 THEN "TERMINE" ELSE "ECHEC"

\* GameScene.draw, run on the state update() leaves: it shows a screen, or
\* raises out of the main loop
draw(st, ns, act, ct, h) ==
    IF st = "loading" THEN screen' = "loading" /\ crash' = None
    ELSE IF st = "error" THEN screen' = "error" /\ crash' = None
    ELSE IF st = "countdown" THEN screen' = "countdown" /\ crash' = None
    ELSE IF DrawNotesRaises(ns, act, ct)
    THEN crash' = "_draw_notes" /\ screen' = screen
    ELSE /\ crash' = None
         /\ screen' = (IF st = "result" THEN ResultTitle(h) ELSE st)

\* the scene is still run by the main loop
Running == crash = None /\ action = None

\* GameScene._load, at clock reading now
load(file_ok, librosa_ok, decode_ok, fresh, msg, mixer_ok, now) ==
    LET r == analyze_music(file_ok, cache_entry, librosa_ok, decode_ok, fresh, msg)
    IN  /\ cache_entry' = r.entry
        /\ IF r.exc # None
           THEN /\ state' = "error"
                /\ error_msg' = Truncated(r.msg)
                /\ load_exc' = r.exc
                /\ UNCHANGED <<scene_notes, music_duration, countdown_ms, clock>>
           ELSE /\ music_duration' = r.chart.duration
                /\ scene_notes' = [k \in 1 .. Len(r.chart.notes) |->
                                      NewNote(r.chart.notes[k].lane, r.chart.notes[k].time)]
                /\ IF ~mixer_ok
                   THEN /\ state' = "error"
                        /\ error_msg' = Truncated(msg)
                        /\ load_exc' = "pygame.error"
                        /\ UNCHANGED <<countdown_ms, clock>>
                   ELSE /\ state' = "countdown"
                        /\ countdown_ms' = now
                        /\ clock' = now
                        /\ UNCHANGED <<error_msg, load_exc>>

\* a frame of the main loop while the scene is loading: update() then draw()
UpdateLoading ==
    /\ Running
    /\ state = "loading"
    /\ IF ~load_done
       THEN /\ load_done' = TRUE
            /\ UNCHANGED <<state, countdown_ms, error_msg, scene_notes, music_duration,
                           clock, cache_entry, load_exc>>
       ELSE /\ \E file_ok, librosa_ok, decode_ok, mixer_ok \in BOOLEAN,
                  fresh \in FreshCharts, msg \in MsgLens, dt \in IdleSteps :
                    load(file_ok, librosa_ok, decode_ok, fresh, msg, mixer_ok, clock + dt)
            /\ UNCHANGED load_done
    /\ draw(state', scene_notes', active, current_time, health)
    /\ UNCHANGED <<active, note_idx, music_start_ms, paused_at_ms, current_time,
                   key_pressed, key_flash, action, keydowns>>
    /\ UNCHANGED <<noteVars, aggVars, agg_call, loopVars, cacheVars>>

\* the countdown test, were it to pass as soon as the load has completed
CountdownOver_AtOnce(elapsed) == elapsed >= 0

\* elapsed_ms >= _COUNTDOWN * 1000
CountdownOver(elapsed) == elapsed >= COUNTDOWN

\* a frame during the countdown; _start_music once _COUNTDOWN has elapsed
UpdateCountdown ==
    /\ Running
    /\ state = "countdown"
    /\ \E dt \in IdleSteps :
           LET now == clock + dt
           IN  /\ clock' = now
               /\ IF CountdownOver(now - countdown_ms)
                  THEN music_start_ms' = now /\ state' = "playing"
                  ELSE UNCHANGED <<music_start_ms, state>>
    /\ draw(state', scene_notes, active, current_time, health)
    /\ UNCHANGED <<load_done, countdown_ms, error_msg, scene_notes, active, note_idx,
                   music_duration, paused_at_ms, current_time, key_pressed, key_flash,
                   cache_entry, action, load_exc, keydowns>>
    /\ UNCHANGED <<noteVars, aggVars, agg_call, loopVars, cacheVars>>

\* update, were its state test to send it back in 'playing' as well
Scheduled_Never(st) == FALSE

\* update, were it to go on past its state test while the scene is paused
Scheduled_WhilePaused(st) == st \in {"playing", "paused"}

\* update goes on to the notes only in 'playing' (if self._state != 'playing': return)
Scheduled(st) == st = "playing"

\* a frame while playing: inject, check for misses, retire, end the run
UpdatePlaying ==
    /\ Running
    /\ Scheduled(state)
    /\ \E dt \in PlaySteps :
           LET now == clock + dt
               ct == now - music_start_ms
               idx == InjectTo(scene_notes, note_idx, ct)
               act1 == active \o Injected(note_idx, idx)
           IN  \* the miss loop runs once; what follows reads its outcome
               \E m \in {MissLoop(scene_notes, act1, ct, 0)} :
                   LET h == Drained(health, m.misses)
                   IN  /\ clock' = now
                       /\ current_time' = ct
                       /\ note_idx' = idx
                       /\ scene_notes' = m.notes
                       /\ active' = Retained(m.notes, act1, ct)
                       /\ miss_count' = miss_count + m.misses
                       /\ combo' = (IF m.misses > 0 THEN 0 ELSE combo)
                       /\ health' = h
                       /\ agg_call' =
                              (IF m.misses > 0
                               THEN [op |-> "miss", judgment |-> "miss", multiplier |-> 0]
                               ELSE agg_call)
                       /\ key_flash' = [i \in DOMAIN key_flash |->
                                            max(0, key_flash[i] - 1)]
                       /\ state' = (IF MusicOver(ct, idx, scene_notes) \/ HealthOut(h)
                                    THEN "result" ELSE "playing")
    /\ draw(state', scene_notes', active', current_time', health')
    /\ UNCHANGED <<score, max_combo, perfect_count, good_count>>
    /\ UNCHANGED <<load_done, countdown_ms, error_msg, music_duration, music_start_ms,
                   paused_at_ms, key_pressed, cache_entry, action, load_exc, keydowns>>
    /\ UNCHANGED <<noteVars, loopVars, cacheVars>>

\* a frame in 'paused', 'result' or 'error': update() returns at once
UpdateOther ==
    /\ Running
    /\ state \in {"paused", "result", "error"}
    /\ draw(state, scene_notes, active, current_time, health)
    /\ UNCHANGED <<state, load_done, countdown_ms, error_msg, scene_notes, active,
                   note_idx, music_duration, music_start_ms, paused_at_ms, current_time,
                   key_pressed, key_flash, clock, cache_entry, action, load_exc,
                   keydowns>>
    /\ UNCHANGED <<noteVars, aggVars, agg_call, loopVars, cacheVars>>

\* the candidate test of _press_lane, were it to leave out the lane comparison
Candidates_AnyLane(lane, ct) ==
    {p \in 1 .. Len(active) :
        LET n == scene_notes[active[p]]
        IN  is_active(n) /\ abs(ct - n.time) <= POOR_WINDOW}

\* the positions of _active that the search of _press_lane retains: the pending
\* notes of the lane within POOR_WINDOW of the current time
Candidates(lane, ct) ==
    {p \in 1 .. Len(active) :
        LET n == scene_notes[active[p]]
        IN  n.lane = lane /\ is_active(n) /\ abs(ct - n.time) <= POOR_WINDOW}

\* best_note, were the search to keep the last candidate of least distance
BestOf_LastClosest(cands, ct) ==
    CHOOSE p \in cands :
        \A q \in cands :
            LET dp == abs(ct - scene_notes[active[p]].time)
                dq == abs(ct - scene_notes[active[q]].time)
            IN  dp < dq \/ (dp = dq /\ p >= q)

\* best_note: the first candidate of least distance (diff < best_diff is strict)
BestOf(cands, ct) ==
    CHOOSE p \in cands :
        \A q \in cands :
            LET dp == abs(ct - scene_notes[active[p]].time)
                dq == abs(ct - scene_notes[active[q]].time)
            IN  dp < dq \/ (dp = dq /\ p <= q)

\* GameScene._press_lane
press_lane(lane) ==
    IF ~PyIndexOK(lane, NUM_LANES)
    THEN /\ crash' = "_press_lane"
         /\ UNCHANGED <<key_pressed, key_flash, scene_notes, aggVars, agg_call>>
    ELSE /\ crash' = None
         /\ key_pressed' = [key_pressed EXCEPT ![lane] = TRUE]
         /\ key_flash' = [key_flash EXCEPT ![lane] = FLASH_FRAMES]
         /\ LET cands == Candidates(lane, current_time)
            IN  IF cands = {}
                THEN UNCHANGED <<scene_notes, aggVars, agg_call>>
                ELSE LET k == active[BestOf(cands, current_time)]
                         r == try_hit(scene_notes[k], current_time)
                     IN  /\ scene_notes' = [scene_notes EXCEPT ![k] = r.note]
                         /\ IF r.ret # None
                            THEN register_hit(r.ret)
                            ELSE UNCHANGED <<aggVars, agg_call>>

\* handle_event on KEYDOWN of the i-th key of _LANE_KEYS
KeyDownLane ==
    /\ Running
    /\ \E i \in 0 .. (NUM_LANE_KEYS - 1) :
           IF state = "playing"
           THEN /\ keydowns < MaxKeyDowns
                /\ keydowns' = keydowns + 1
                /\ press_lane(i)
           ELSE UNCHANGED <<keydowns, crash, key_pressed, key_flash, scene_notes,
                            aggVars, agg_call>>
    /\ UNCHANGED <<state, load_done, countdown_ms, error_msg, active, note_idx,
                   music_duration, music_start_ms, paused_at_ms, current_time, clock,
                   cache_entry, action, screen, load_exc>>
    /\ UNCHANGED <<noteVars, loopVars, cacheVars>>

\* GameScene._pause at clock reading now
pause(now) ==
    /\ state' = "paused"
    /\ paused_at_ms' = now
    /\ UNCHANGED music_start_ms

\* _resume, were it to leave the start of the music where it was
resume_NoShift(now) ==
    /\ music_start_ms' = music_start_ms
    /\ state' = "playing"
    /\ UNCHANGED paused_at_ms

\* GameScene._resume at clock reading now
resume(now) ==
    /\ music_start_ms' = music_start_ms + (now - paused_at_ms)
    /\ state' = "playing"
    /\ UNCHANGED paused_at_ms

\* handle_event on KEYDOWN of K_p
KeyDownPause ==
    /\ Running
    /\ IF state = "playing"
       THEN /\ keydowns < MaxKeyDowns
            /\ keydowns' = keydowns + 1
            /\ \E dt \in PlaySteps : clock' = clock + dt /\ pause(clock + dt)
       ELSE IF state = "paused"
       THEN /\ \E dt \in PlaySteps : clock' = clock + dt /\ resume(clock + dt)
            /\ UNCHANGED keydowns
       ELSE UNCHANGED <<state, paused_at_ms, music_start_ms, clock, keydowns>>
    /\ UNCHANGED <<load_done, countdown_ms, error_msg, scene_notes, active, note_idx,
                   music_duration, current_time, key_pressed, key_flash, cache_entry,
                   crash, action, screen, load_exc>>
    /\ UNCHANGED <<noteVars, aggVars, agg_call, loopVars, cacheVars>>

\* handle_event on KEYDOWN of K_ESCAPE: the main loop goes back to the menu
KeyDownEscape ==
    /\ Running
    /\ action' = "menu"
    /\ UNCHANGED <<state, load_done, countdown_ms, error_msg, scene_notes, active,
                   note_idx, music_duration, music_start_ms, paused_at_ms, current_time,
                   key_pressed, key_flash, clock, cache_entry, crash, screen, load_exc,
                   keydowns>>
    /\ UNCHANGED <<noteVars, aggVars, agg_call, loopVars, cacheVars>>

\* handle_event on KEYDOWN of K_RETURN or K_SPACE
KeyDownReturn ==
    /\ Running
    /\ action' = (IF state = "result" THEN "menu" ELSE action)
    /\ UNCHANGED <<state, load_done, countdown_ms, error_msg, scene_notes, active,
                   note_idx, music_duration, music_start_ms, paused_at_ms, current_time,
                   key_pressed, key_flash, clock, cache_entry, crash, screen, load_exc,
                   keydowns>>
    /\ UNCHANGED <<noteVars, aggVars, agg_call, loopVars, cacheVars>>

\* handle_event on KEYUP of the i-th key of _LANE_KEYS
KeyUpLane ==
    /\ Running
    /\ \E i \in 0 .. (NUM_LANE_KEYS - 1) :
           IF PyIndexOK(i, NUM_LANES)
           THEN key_pressed' = [key_pressed EXCEPT ![i] = FALSE] /\ crash' = None
           ELSE crash' = "handle_event" /\ UNCHANGED key_pressed
    /\ UNCHANGED <<state, load_done, countdown_ms, error_msg, scene_notes, active,
                   note_idx, music_duration, music_start_ms, paused_at_ms, current_time,
                   key_flash, clock, cache_entry, action, screen, load_exc, keydowns>>
    /\ UNCHANGED <<noteVars, aggVars, agg_call, loopVars, cacheVars>>

\* the state of the program when main.py has built the GameScene
SceneInit ==
    /\ SceneFieldsInit
    /\ AggInit
    /\ NoteIdle
    /\ LoopInit
    /\ clock = 0
    /\ cache_entry \in CacheEntries
    /\ crash = None
    /\ action = None
    /\ screen = None
    /\ load_exc = None
    /\ keydowns = 0
    /\ CacheIdle

\* main.py: each event goes to handle_event, then update() and draw()
Next ==
    \/ UpdateLoading
    \/ UpdateCountdown
    \/ UpdatePlaying
    \/ UpdateOther
    \/ KeyDownLane
    \/ KeyDownPause
    \/ KeyDownEscape
    \/ KeyDownReturn
    \/ KeyUpLane

Spec == SceneInit /\ [][Next]_vars

\* the lanes whose per-lane gap an onset at the given time satisfies
Eligible(time) == {j \in Lanes : time - last_time_per_lane[j] >= MIN_GAP_LANE}

\* C21: a step that assigns an onset gives it an eligible lane that no
\* eligible lane beats in band energy, the lowest such lane when several
\* have that energy; it sets the tracker of that lane and last_any_time to
\* the onset time and leaves the trackers of the other lanes alone.
C21_LaneChoice ==
    [][(onset_count' # onset_count /\ branch' = "assigned")
         => /\ chosen' \in Eligible(onset_time')
            /\ \A j \in Eligible(onset_time') :
                   \/ band_energies'[j] < band_energies'[chosen']
                   \/ (band_energies'[j] = band_energies'[chosen'] /\ chosen' <= j)
            /\ last_any_time' = onset_time'
            /\ last_time_per_lane' =
                   [last_time_per_lane EXCEPT ![chosen'] = onset_time']]_vars

\* an onset assigned while a lane of higher energy was too recent, to the
\* lower of two lanes of equal energy that were both free
C21_Witness ==
    /\ branch = "assigned"
    /\ \E j \in Lanes : band_energies[j] > band_energies[chosen]
    /\ \E k \in Lanes :
           /\ k > chosen
           /\ band_energies[k] = band_energies[chosen]
           /\ onset_time - last_time_per_lane[k] >= MIN_GAP_LANE

\* ---------------------------------------------------------------------
\* The analysis cache: calls of analyze_music on one file name whose
\* content can be replaced between calls
\* ---------------------------------------------------------------------

\* analyze_music(music_path) on the present content of the file
Analyze ==
    /\ \E librosa_ok, decode_ok \in BOOLEAN, msg \in MsgLens :
           LET path == cache_path(file)
               r == analyze_music(TRUE, cache[path], librosa_ok, decode_ok,
                                  AnalysisOf(file), msg)
           IN  /\ cache' = [cache EXCEPT ![path] = r.entry]
               /\ result' = [exc |-> r.exc, chart |-> r.chart, analysed |-> r.analysed,
                             file |-> file]
    /\ UNCHANGED file
    /\ UNCHANGED <<noteVars, aggVars, agg_call, loopVars, sceneVars>>

\* the file at music_path is replaced by one of another content
ReplaceFile ==
    /\ \E content \in Contents \ {file} : file' = content
    /\ UNCHANGED <<cache, result>>
    /\ UNCHANGED <<noteVars, aggVars, agg_call, loopVars, sceneVars>>

\* what the cache directory can hold for a key before any call of this run:
\* nothing, or a file left behind that json.load or the field reads reject
LeftBehind == {e \in CacheEntries : e.kind # "valid"}

CacheInit ==
    /\ file \in Contents
    /\ cache \in [CachePaths -> LeftBehind]
    /\ result = NoResult
    /\ AggInit
    /\ NoteIdle
    /\ LoopInit
    /\ SceneIdle

CacheNext == Analyze \/ ReplaceFile

SpecCache == CacheInit /\ [][CacheNext]_vars

\* C16: when the last call of analyze_music analysed the file and stored the
\* result, and the file has not changed, the next call returns without
\* analysing, with the chart the first call returned (same notes in the same
\* order, same tempo, same duration), and writes nothing.
C16_CacheRoundTrip ==
    [][(/\ result.exc = None
        /\ result.analysed
        /\ result.file = file
        /\ file' = file
        /\ result' # result)
         => /\ result'.exc = None
            /\ ~result'.analysed
            /\ result'.chart = result.chart
            /\ cache' = cache]_vars

\* a call answered from the cache with the chart of the file's content
C16_Witness ==
    /\ result.exc = None
    /\ ~result.analysed
    /\ result.file = file
    /\ result.chart = AnalysisOf(file)
    /\ Len(result.chart.notes) > 0
    /\ cache[cache_path(file)].kind = "valid"

\* C17 as stated: replacing the file by any other content changes the cache
\* path, and every chart analyze_music returns is the chart of the content
\* the file had at the call.
C17_ReplacementDetected ==
    [][/\ file' # file => cache_path(file') # cache_path(file)
       /\ result'.exc = None => result'.chart = AnalysisOf(result'.file)]_vars

\* C17: a replacement that changes the digest of the first 8192 bytes changes
\* the cache path, and every chart analyze_music returns was analysed from a
\* content with the digest the file had at the call.
C17_DigestChangeDetected ==
    [][/\ Digest(file') # Digest(file) => cache_path(file') # cache_path(file)
       /\ result'.exc = None =>
              \E c \in Contents :
                  Digest(c) = Digest(result'.file) /\ result'.chart = AnalysisOf(c)]_vars

\* the replaced file was analysed anew while the entry of the old content is
\* still in the cache directory
C17_Witness ==
    /\ result.exc = None
    /\ result.analysed
    /\ result.file = file
    /\ \E path \in CachePaths :
           path # cache_path(file) /\ cache[path].kind = "valid"

\* C26: a call of analyze_music changes the cache at most at the key derived
\* from the file, and only by creating the entry where there was none, with
\* the chart it analysed, after an analysis that succeeded; a call that raises
\* and a call answered from the cache write nothing, and an entry that exists
\* (stale or unreadable ones included) is never modified or deleted
C26_OnlyCreatesEntry ==
    [][/\ \A path \in CachePaths :
              cache'[path] # cache[path]
                  => /\ path = cache_path(file)
                     /\ cache[path] = NoEntry
                     /\ result'.exc = None
                     /\ result'.analysed
                     /\ cache'[path] = [kind |-> "valid",
                                        text |-> json_dump(result'.chart)]
       /\ \A path \in CachePaths : cache[path] # NoEntry => cache'[path] = cache[path]
       /\ (result' # result /\ (result'.exc # None \/ ~result'.analysed))
              => cache' = cache]_vars

\* a call was answered from an entry stored for another content of the same
\* key, which is still as stored, while an unreadable entry of another key is
\* still in place
C26_Witness ==
    /\ result.exc = None
    /\ ~result.analysed
    /\ result.file = file
    /\ cache[cache_path(file)].kind = "valid"
    /\ cache[cache_path(file)].text # json_dump(AnalysisOf(file))
    /\ \E path \in CachePaths : cache[path].kind \in {"corrupt", "nofields"}

\* ---------------------------------------------------------------------
\* Claims on the scene
\* ---------------------------------------------------------------------

\* the notes of the chart that a step turns from pending to missed
NewlyMissed ==
    {k \in DOMAIN scene_notes :
        k \in DOMAIN scene_notes' /\ scene_notes'[k].missed /\ ~scene_notes[k].missed}

\* C11: every step that resolves n >= 1 notes as missed leaves combo at 0,
\* adds exactly n to miss_count (one per resolution), takes health to
\* max(0, health - 10 n), and leaves score, max_combo and the hit counters
\* alone; health is within [0, 100] before and after every step.
C11_MissResolution ==
    [][LET n == Cardinality(NewlyMissed)
       IN  /\ health \in 0 .. START_HEALTH
           /\ health' \in 0 .. START_HEALTH
           /\ miss_count' = miss_count + n
           /\ n > 0 =>
                 /\ combo' = 0
                 /\ health' = max(0, health - MISS_PENALTY * n)
                 /\ score' = score
                 /\ max_combo' = max_combo
                 /\ perfect_count' = perfect_count
                 /\ good_count' = good_count]_vars

\* a run with a combo behind it whose misses outnumber the health there was
\* to lose: the last of them found health at 0 already
C11_Witness ==
    /\ agg_call.op = "miss"
    /\ max_combo > 0
    /\ combo = 0
    /\ miss_count * MISS_PENALTY > START_HEALTH
    /\ health = 0

\* C12: no lane key-down or key-up event indexes key_pressed or key_flash
\* outside 0 .. NUM_LANES - 1, that is, neither _press_lane nor the KEYUP
\* branch of handle_event ever raises IndexError.
C12_LaneIndexInBounds == crash \notin {"_press_lane", "handle_event"}

\* C13: when _load runs with a cache entry that is not parseable or lacks a
\* field, analyze_music takes it for a cache miss: the scene is not sent to
\* 'error' by a JSONDecodeError or a KeyError raised on reading the entry.
C13_CorruptCacheIsMiss ==
    [][(state = "loading" /\ load_done /\ cache_entry.kind \in {"corrupt", "nofields"})
         => load_exc' \notin {"JSONDecodeError", "KeyError"}]_vars

\* C14: a step in which _load catches an error takes the scene from 'loading'
\* to 'error' with a stored message of at most 80 characters and leaves the
\* main loop running (nothing propagates out of update); the stored message
\* never exceeds 80 characters, and no step leaves 'error'.
C14_LoadErrorContained ==
    [][/\ load_exc' # load_exc =>
            /\ state = "loading"
            /\ state' = "error"
            /\ crash' = None
       /\ error_msg' <= MSG_MAX
       /\ state = "error" => state' = "error"]_vars

\* the audio file was missing, its long message was cut to 80 characters and
\* the error screen has been drawn
C14_Witness ==
    /\ state = "error"
    /\ load_exc = "FileNotFoundError"
    /\ error_msg = MSG_MAX
    /\ screen = "error"
    /\ crash = None

\* the notes with a lane in 0 .. NUM_LANES - 1 among those a step turns to missed
NewlyMissedInRange == {k \in NewlyMissed : scene_notes[k].lane \in Lanes}

\* C15: a chart note whose lane lies outside 0 .. NUM_LANES - 1 is inert:
\* presenting it never raises (no IndexError leaves _draw_notes), and its
\* miss-check changes neither miss_count nor health, which move only by the
\* in-range notes a step resolves as missed.
C15_OutOfRangeLaneInert ==
    [][LET m == Cardinality(NewlyMissedInRange)
       IN  /\ crash' # "_draw_notes"
           /\ miss_count' = miss_count + m
           /\ health' = max(0, health - MISS_PENALTY * m)]_vars

\* a step of update() in 'playing': the only step that reads the clock while
\* playing and does not pause
SchedulingStep == state = "playing" /\ clock' # clock /\ state' # "paused"

\* C18: a scheduling step that leaves health above 0 ends the run if and only
\* if its playback time exceeds duration + 1.5 s and every note of the chart
\* has been injected; otherwise the scene stays in 'playing'.
C18_EndOfRun ==
    [][(SchedulingStep /\ health' > 0)
         => /\ state' \in {"playing", "result"}
            /\ state' = "result" <=>
                  (/\ current_time' > music_duration + GRACE
                   /\ note_idx' >= Len(scene_notes))]_vars

\* a run of a chart with notes that ended with health left, past the grace
\* period and with every note injected, and whose summary has been drawn
C18_Witness ==
    /\ state = "result"
    /\ health > 0
    /\ Len(scene_notes) > 0
    /\ note_idx = Len(scene_notes)
    /\ current_time > music_duration + GRACE
    /\ screen = ResultTitle(health)

\* C19: health is 0 only in 'result' (the scheduling step that takes health
\* to 0 ends the run, so no press is judged and no scheduling step runs in
\* 'playing' with health 0), and the summary drawn in 'result' reports
\* success if and only if health > 0.
C19_ForcedCompletion ==
    /\ health = 0 => state = "result"
    /\ screen \in {"TERMINE", "ECHEC"} =>
          /\ state = "result"
          /\ screen = "TERMINE" <=> health > 0

\* a run ended by its misses, whose summary reports the failure
C19_Witness ==
    /\ state = "result"
    /\ health = 0
    /\ miss_count * MISS_PENALTY >= START_HEALTH
    /\ screen = "ECHEC"

\* the playback time _get_time would return at the last reading of the clock
PlaybackTime == clock - music_start_ms

\* C20: a resume leaves the playback time where the pause found it (the
\* paused duration goes into _music_start_ms), for every pause of a run; the
\* playback time the scene uses never decreases, and the time of a pause is
\* never behind it.
C20_PauseResume ==
    [][/\ (state = "paused" /\ state' = "playing") =>
              /\ clock' - music_start_ms' = paused_at_ms - music_start_ms
              /\ clock' - music_start_ms' >= current_time
       /\ (state = "playing" /\ state' = "paused") =>
              paused_at_ms' - music_start_ms' >= current_time
       /\ current_time' >= current_time]_vars

\* a run paused and resumed twice with no lane key touched, then scheduled
\* again: the playback time went on from where the second pause left it
C20_Witness ==
    /\ Running
    /\ state = "playing"
    /\ keydowns >= 2
    /\ \A i \in DOMAIN key_flash : key_flash[i] = 0 /\ ~key_pressed[i]
    /\ music_start_ms - countdown_ms > COUNTDOWN
    /\ current_time = PlaybackTime
    /\ current_time > 0

\* the chart notes that are in _active
ActiveSet(act) == {act[p] : p \in DOMAIN act}

\* C22 as stated: after a scheduling step at playback time t the injected
\* notes are exactly the notes with time <= t + HIT_Y / FALL_SPEED.
C22_PrefixWithinVisibility ==
    [][SchedulingStep =>
          \A k \in DOMAIN scene_notes :
              k <= note_idx' <=>
                  (scene_notes[k].time - current_time') * FALL_SPEED <= HIT_Y * 100]_vars

\* C22: after a scheduling step at playback time t the injected notes are
\* exactly the notes with time <= t + HIT_Y / FALL_SPEED + 0.5 s; _note_idx
\* never decreases; the notes a step adds to _active are those it injects,
\* and no note is in _active twice.
C22_PrefixWithinMargin ==
    [][/\ SchedulingStep =>
              \A k \in DOMAIN scene_notes :
                  k <= note_idx' <=>
                      (scene_notes[k].time - current_time' - INJECT_MARGIN) * FALL_SPEED
                          <= HIT_Y * 100
       /\ note_idx' >= note_idx
       /\ \A k \in ActiveSet(active') \ ActiveSet(active) :
              k > note_idx /\ k <= note_idx'
       /\ \A p, q \in DOMAIN active' : p # q => active'[p] # active'[q]]_vars

\* a chart whose first note is injected and whose second is not yet, 0.5 s
\* into the music
C22_Witness ==
    /\ state = "playing"
    /\ current_time > 0
    /\ note_idx > 0
    /\ note_idx < Len(scene_notes)
    /\ (scene_notes[note_idx + 1].time - current_time - INJECT_MARGIN) * FALL_SPEED
           > HIT_Y * 100

\* C23: miss_count is the number of chart notes that are missed and
\* perfect_count + good_count the number that are hit, in every state; and a
\* step changes score, combo, max_combo, health or a counter only if it takes
\* some note from pending to hit or missed.
C23_ResolvedOnce ==
    /\ [](/\ miss_count = Cardinality({k \in DOMAIN scene_notes : scene_notes[k].missed})
          /\ perfect_count + good_count
                 = Cardinality({k \in DOMAIN scene_notes : scene_notes[k].hit}))
    /\ [][aggVars' # aggVars =>
              \E k \in DOMAIN scene_notes :
                  /\ k \in DOMAIN scene_notes'
                  /\ is_active(scene_notes[k])
                  /\ ~is_active(scene_notes'[k])]_vars

\* a run with a missed note, a poor hit and another hit
C23_Witness ==
    /\ miss_count > 0
    /\ \E k \in DOMAIN scene_notes : scene_notes[k].hit /\ scene_notes[k].judgment = "poor"
    /\ perfect_count + good_count > 1

\* a lane key-down handled while playing that did not raise
PressStep ==
    /\ state = "playing"
    /\ state' = "playing"
    /\ keydowns' = keydowns + 1
    /\ crash' = None

\* the lanes the key-down of this step can have been for, read off the key state
PressedLanes ==
    {i \in Lanes :
        /\ key_pressed' = [key_pressed EXCEPT ![i] = TRUE]
        /\ key_flash' = [key_flash EXCEPT ![i] = FLASH_FRAMES]}

\* some pending note of the lane in the active list lies within POOR_WINDOW of ct
PendingInWindow(i) ==
    \E p \in 1 .. Len(active) :
        /\ scene_notes[active[p]].lane = i
        /\ ~scene_notes[active[p]].hit
        /\ ~scene_notes[active[p]].missed
        /\ abs(current_time - scene_notes[active[p]].time) <= POOR_WINDOW

\* C24: a lane key-down while playing whose lane has no pending active note
\* within POOR_WINDOW of the current time consumes nothing: the notes, the active
\* list, the score state and the scene state stay as they were, and the key-down
\* shows only in key_pressed and key_flash
C24_EmptyPressInert ==
    [][(PressStep /\ \A i \in PressedLanes : ~PendingInWindow(i))
          => /\ PressedLanes # {}
             /\ UNCHANGED <<aggVars, agg_call, scene_notes, active, note_idx>>
             /\ UNCHANGED <<state, current_time, music_start_ms, paused_at_ms,
                            load_done, countdown_ms, error_msg, music_duration>>]_vars

\* a key is down and freshly lit on a lane whose only pending active note is
\* still further away than POOR_WINDOW, and nothing has been hit
C24_Witness ==
    /\ Running
    /\ state = "playing"
    /\ keydowns > 0
    /\ perfect_count + good_count = 0
    /\ \E i \in Lanes :
           /\ key_pressed[i]
           /\ key_flash[i] = FLASH_FRAMES
           /\ ~PendingInWindow(i)
           /\ \E p \in 1 .. Len(active) :
                  /\ scene_notes[active[p]].lane = i
                  /\ is_active(scene_notes[active[p]])
                  /\ abs(current_time - scene_notes[active[p]].time) > POOR_WINDOW

\* C25: outside 'playing' no step (a frame, a lane key-down or key-up, a pause
\* key) changes the score state, the active list or the next-unscheduled index,
\* and no note changes: the notes are created pending by the load in 'loading'
\* and are otherwise left as they are, so the statistics of 'result' are frozen
\* and nothing is missed while paused
C25_InertOutsidePlaying ==
    [][state # "playing"
          => /\ UNCHANGED <<aggVars, active, note_idx>>
             /\ IF state = "loading"
                THEN /\ scene_notes = <<>>
                     /\ \A k \in DOMAIN scene_notes' :
                            /\ ~scene_notes'[k].hit
                            /\ ~scene_notes'[k].missed
                            /\ scene_notes'[k].judgment = None
                ELSE UNCHANGED scene_notes]_vars

\* a frame has been drawn in 'paused' while the playback time stored by the last
\* scheduling step has a pending note in the active list and a hit is on record
C25_Witness ==
    /\ Running
    /\ state = "paused"
    /\ screen = "paused"
    /\ perfect_count + good_count > 0
    /\ \E p \in 1 .. Len(active) : is_active(scene_notes[active[p]])

\* C27: the scene states follow one order. 'countdown' is entered only from
\* 'loading', by a load that raised nothing and ran after a loading frame had
\* been drawn; 'playing' is entered from 'countdown' only once _COUNTDOWN seconds
\* of clock time have passed since the load completed, and otherwise only from
\* 'paused'; 'paused' is entered only from 'playing' and left only to 'playing';
\* 'result' is entered only from 'playing'; and 'loading' is never entered again
C27_StateOrder ==
    [][/\ (state' = "countdown" /\ state # "countdown")
            => /\ state = "loading"
               /\ load_done
               /\ screen = "loading"
               /\ load_exc' = None
               /\ countdown_ms' = clock'
       /\ (state' = "playing" /\ state # "playing")
            => \/ /\ state = "countdown"
                  /\ clock' - countdown_ms >= COUNTDOWN
                  /\ music_start_ms' = clock'
               \/ state = "paused"
       /\ (state' = "paused" /\ state # "paused") => state = "playing"
       /\ (state = "paused" /\ state' # "paused") => state' = "playing"
       /\ (state' = "result" /\ state # "result") => state = "playing"
       /\ state' = "loading" => state = "loading"]_vars

\* a run that went through the countdown, was paused and resumed, and ended
C27_Witness ==
    /\ Running
    /\ state = "result"
    /\ paused_at_ms > 0
    /\ music_start_ms - countdown_ms > COUNTDOWN

\* the notes of the chart whose state a step changes
Resolved == {k \in DOMAIN scene_notes : scene_notes'[k] # scene_notes[k]}

\* position p of the active list holds a pending note of lane i within
\* POOR_WINDOW of the current time
IsCandidate(p, i) ==
    /\ scene_notes[active[p]].lane = i
    /\ is_active(scene_notes[active[p]])
    /\ abs(current_time - scene_notes[active[p]].time) <= POOR_WINDOW

TimeSorted(ns) == \A i, j \in DOMAIN ns : i < j => ns[i].time <= ns[j].time

\* the notes a scheduling step takes out of the active list, those it has just
\* injected included
Retired ==
    (ActiveSet(active) \cup (note_idx + 1) .. note_idx') \ ActiveSet(active')

\* C30: with a chart in time order, after every scheduling step at playback
\* time t each pending note with time <= t + POOR_WINDOW is in the active
\* list, and the notes the step retires are hit with t - time > 0.4 s or missed
\* with t - time > 0.6 s, never pending
C30_PendingStayActive ==
    [][(SchedulingStep /\ TimeSorted(scene_notes))
          => /\ \A k \in DOMAIN scene_notes' :
                    (/\ is_active(scene_notes'[k])
                     /\ scene_notes'[k].time <= current_time' + POOR_WINDOW)
                        => k \in ActiveSet(active')
             /\ \A k \in Retired :
                    \/ /\ scene_notes'[k].hit
                       /\ current_time' - scene_notes'[k].time > HIT_RETENTION
                    \/ /\ scene_notes'[k].missed
                       /\ current_time' - scene_notes'[k].time > MISS_RETENTION]_vars

\* after a scheduling step a hit note and a missed note have been retired, a
\* missed note is still retained, and pending notes within POOR_WINDOW of the
\* playback time are in the active list
C30_Witness ==
    /\ Running
    /\ state = "playing"
    /\ TimeSorted(scene_notes)
    /\ \E k \in DOMAIN scene_notes \ ActiveSet(active) : scene_notes[k].hit
    /\ \E k \in DOMAIN scene_notes \ ActiveSet(active) : scene_notes[k].missed
    /\ \E k \in ActiveSet(active) : scene_notes[k].missed
    /\ \E k \in ActiveSet(active) :
           /\ is_active(scene_notes[k])
           /\ abs(current_time - scene_notes[k].time) <= POOR_WINDOW

\* ---------------------------------------------------------------------
\* Progress of a run
\* ---------------------------------------------------------------------

\* handle_event on K_p while paused: the player resumes
Resume == state = "paused" /\ KeyDownPause

\* The events of a player who stays in the scene: no K_ESCAPE, no K_RETURN
\* or K_SPACE on the result screen. Key releases are left out as well: they
\* write _key_pressed only, which update never reads.
LiveNext ==
    \/ UpdateLoading
    \/ UpdateCountdown
    \/ UpdatePlaying
    \/ UpdateOther
    \/ KeyDownLane
    \/ KeyDownPause

\* The scene under a main loop that keeps calling update while the clock
\* advances (a countdown frame with a later clock reading is eventually
\* taken, and so is a frame in 'playing'), with a player who does not leave
\* the scene paused for ever
SpecLive ==
    /\ SceneInit
    /\ [][LiveNext]_vars
    /\ WF_vars(UpdateCountdown)
    /\ WF_vars(UpdatePlaying)
    /\ WF_vars(Resume)

\* every note of the chart due by the end of the music is hit or missed
AllDueResolved ==
    \A k \in DOMAIN scene_notes :
        scene_notes[k].time <= music_duration
            => scene_notes[k].hit \/ scene_notes[k].missed

\* C31: once the load has succeeded, a run in which update keeps being called
\* reaches 'result' (update is no longer called once an exception has ended
\* the main loop); and whenever the scene is in 'result' with health above 0,
\* every note with time <= duration is hit or missed, none pending
C31_RunEnds ==
    /\ (state = "countdown") ~> (state = "result" \/ crash # None)
    /\ [](state = "result" /\ health > 0 => AllDueResolved)

\* a run that was paused and resumed has ended with health left, with notes
\* hit, notes missed, and nothing due left pending
C31_Witness ==
    /\ Running
    /\ state = "result"
    /\ health > 0
    /\ paused_at_ms > 0
    /\ perfect_count + good_count > 0
    /\ miss_count > 0
    /\ Len(scene_notes) > 0
    /\ AllDueResolved

====
